---- MODULE Spec2Model ----
(***************************************************************************)
(* Identity-token verification and event dispatch of the lambda:           *)
(*   src/payments/src/infrastructure/id_token.py    (IdTokenWithJose)      *)
(*   src/payments/src/infrastructure/parameters.py  (ParametersWithSSM)    *)
(*   src/payments/src/api.py                        (get_hello_world)      *)
(*   src/api/src/infrastructure/__init__.py         (initialize)           *)
(*   src/api/src/handler.py                         (module initialisation)*)
(*   src/payments/src/handler.py                    (lambda_handler)       *)
(*   src/api/src/api_gateway_handler.py             (is_api_gateway_event) *)
(*                                                                         *)
(* One process: the module import publishes the trust configuration in    *)
(* the class attributes of IdTokenWithJose, then invocations are served   *)
(* one at a time.  A /hello_world request is split at its only blocking   *)
(* call, the key-set fetch: the part before it and the part after it.     *)
(***************************************************************************)
EXTENDS Integers, Sequences, FiniteSets, TLC

\* Python's None, as a value of string-typed fields.
None == "None"

\* ------------------------------------------------------------------ bounds
\* Most services the configuration document lists, hence the longest
\* client-id list the parameter store lookups produce.
MaxClients == 2
\* Longest key list a key-set response carries.
MaxKeys == 2
\* Most records a queue event carries.
MaxRecords == 2

\* ----------------------------------------------------------------- domains
SeqsUpTo(S, n) == UNION {[1..k -> S] : k \in 0..n}

\* Values of the AWS_REGION and DEPLOYMENT_ID environment variables.
EnvRegions == {None, "r1"}
EnvDeployments == {None, "d1"}
\* What the parameter store answers for /<deployment>/auth/user_pool_ref.
PoolIds == {None, "p1"}
\* Client ids the parameter store holds; "cX" is a client of no frontend.
Clients == {"cA", "cB"}
Audiences == Clients \cup {"cX"}
ClientLists == SeqsUpTo(Clients, MaxClients)

\* A JWK of the key-set document: its "kid" member (NoKid: the member is
\* absent, RFC 7517 makes it optional) and its key material.
NoKid == "NoKid"
Kids == {"k1", "k2"}
KeyEntries ==
    { [kid |-> "k1", n |-> "n1"],
      [kid |-> "k2", n |-> "n2"],
      [kid |-> NoKid, n |-> "n2"] }
NoKey == [kid |-> None, n |-> None]

\* What GET .../.well-known/jwks.json answers: a body with a "keys" list, no
\* answer, a non-success status, or a body without "keys".
NotFetched == [status |-> "not_fetched", keys |-> <<>>]
JwksResponses ==
    { [status |-> "ok", keys |-> ks] : ks \in SeqsUpTo(KeyEntries, MaxKeys) }
    \cup { [status |-> s, keys |-> <<>>] : s \in {"unreachable", "http_error", "no_keys"} }

\* The issuer string f"https://cognito-idp.{region}.amazonaws.com/{pool}",
\* kept as the pair of its two variable parts.
IssuerString(region, pool) == <<region, pool>>
Issuers == { IssuerString("r1", "p1"), IssuerString("us-east-1", "p1") }

\* A token: a compact JWS whose header carries kid (or none), signed with the
\* private half of material sig, with the claims exp (as: has it passed), iss,
\* aud (one string, as the pool issues it), token_use (None: absent), sub and
\* email; or a string that is no JWS.
JwtTokens ==
    [ form : {"jwt"}, kid : Kids \cup {NoKid}, sig : {"n1", "n2"},
      expired : BOOLEAN, iss : Issuers, aud : Audiences,
      token_use : {"id", "access", None}, sub : {"u1"}, email : {"e1"} ]
Garbage ==
    [ form |-> "garbage", kid |-> NoKid, sig |-> None, expired |-> FALSE,
      iss |-> IssuerString(None, None), aud |-> None, token_use |-> None,
      sub |-> None, email |-> None ]
Tokens == JwtTokens \cup {Garbage}

\* The X-IdToken header of a request: absent, the empty string, or a token.
NoTok == [Garbage EXCEPT !.form = "none"]
NoHeader == [kind |-> "absent", tok |-> NoTok]
Headers ==
    { NoHeader, [kind |-> "empty", tok |-> NoTok] }
    \cup { [kind |-> "token", tok |-> t] : t \in Tokens }

\* ------------------------------------------------- IdTokenWithJose: state
\* The class attributes as the class body sets them.
ClassDefaults ==
    [ aws_region |-> None, deployment_id |-> None, cognito_region |-> None,
      cognito_user_pool_id |-> None, cognito_client_ids |-> <<>> ]

\* Python truthiness of an optional string.
Falsy(s) == s = None \/ s = ""

\* set_environment: the class attributes after the call.
set_environment(aws_region, deployment_id, cognito_region, cognito_user_pool_id, cognito_client_ids) ==
    [ aws_region |-> IF aws_region = None THEN "us-east-1" ELSE aws_region,
      deployment_id |-> IF deployment_id = None THEN "" ELSE deployment_id,
      cognito_region |->
          IF cognito_region = None
          THEN (IF Falsy(aws_region) THEN "us-east-1" ELSE aws_region)
          ELSE cognito_region,
      cognito_user_pool_id |-> cognito_user_pool_id,
      cognito_client_ids |->
          IF Len(cognito_client_ids) = 0 THEN <<>> ELSE cognito_client_ids ]

\* --------------------------------------------------------- python-jose
\* The names the module jose.jwt binds (id_token.py imports it as jwt): its
\* own functions and the four exception classes it imports from
\* jose.exceptions.  The class hierarchy: JWTClaimsError and
\* ExpiredSignatureError derive from JWTError, everything from Exception.
JoseJwtNames == {"ExpiredSignatureError", "JWSError", "JWTClaimsError", "JWTError"}
IsInstance(exc, class) ==
    \/ class = "Exception"
    \/ exc = class
    \/ class = "JWTError" /\ exc \in {"JWTClaimsError", "ExpiredSignatureError"}

\* jwt.get_unverified_header(id_token): the header of a compact JWS, or a
\* JWTError for a string that is none.
get_unverified_header(id_token) ==
    IF id_token.form = "jwt"
    THEN [exc |-> None, kid |-> id_token.kid]
    ELSE [exc |-> "JWTError", kid |-> NoKid]

\* jwt.decode(id_token, key, algorithms, audience, issuer, options) with
\* at_hash switched off: the signature first, then the claims in the order
\* exp, aud, iss.  exc is the class raised (None: the claims are returned),
\* why the check that failed.
\* Mutation: the audience is not verified (verify_aud switched off).
jwt_decode_no_aud(id_token, key, audience, issuer) ==
    IF id_token.sig # key.n THEN [exc |-> "JWTError", why |-> "signature"]
    ELSE IF id_token.expired THEN [exc |-> "ExpiredSignatureError", why |-> "expired"]
    ELSE IF id_token.iss # issuer THEN [exc |-> "JWTClaimsError", why |-> "issuer"]
    ELSE [exc |-> None, why |-> None]
\* The call as written.
jwt_decode(id_token, key, audience, issuer) ==
    IF id_token.sig # key.n THEN [exc |-> "JWTError", why |-> "signature"]
    ELSE IF id_token.expired THEN [exc |-> "ExpiredSignatureError", why |-> "expired"]
    ELSE IF id_token.aud # audience THEN [exc |-> "JWTClaimsError", why |-> "audience"]
    ELSE IF id_token.iss # issuer THEN [exc |-> "JWTClaimsError", why |-> "issuer"]
    ELSE [exc |-> None, why |-> None]

\* ------------------------------------------- IdTokenWithJose.verify_id_token
\* What a call ends with: the claims returned, or an exception raised (its
\* class and the start of its message).
Return == [kind |-> "return", exc |-> None, msg |-> None]
Raise(exc, msg) == [kind |-> "raise", exc |-> exc, msg |-> msg]

MsgNoPool == "Cognito user pool ID is not configured"
MsgNoClients == "No Cognito client IDs configured"
MsgBadHeader == "Invalid token: Cannot decode header"
MsgNoJwks == "Cannot fetch JWKS from Cognito"
MsgNoKey == "Public key not found in jwks.json"
MsgExpired == "Token has expired."
MsgIssuer == "Token issuer mismatch"
MsgAudience == "Token audience mismatch"
MsgAllFailed == "Token verification failed for all client IDs"

\* The record of one verify_id_token call: the class attributes after it,
\* how it ended, the number of key-set requests sent, the key located and
\* the client ids handed to jwt.decode, in order.
Verified(cls, out, net, key, tried) ==
    [cls |-> cls, out |-> out, net |-> net, key |-> key, tried |-> tried]

\* The except clauses of the trial loop, in order.  Python evaluates the
\* expression of a clause when it reaches it: a name jose.jwt does not bind
\* raises AttributeError out of the whole try statement.
\* Mutation: the ExpiredSignatureError clause is missing.
ExceptClauses_no_expired == <<"InvalidAudienceError", "InvalidIssuerError", "Exception">>
\* Mutation: the two clauses that name no class of jose.jwt are left out.
ExceptClauses_generic == <<"ExpiredSignatureError", "Exception">>
ExceptClauses == <<"ExpiredSignatureError", "InvalidAudienceError", "InvalidIssuerError", "Exception">>
RECURSIVE ExceptClause(_, _)
ExceptClause(exc, i) ==
    LET class == ExceptClauses[i] IN
    IF class # "Exception" /\ class \notin JoseJwtNames THEN "AttributeError"
    ELSE IF IsInstance(exc, class) THEN class
    ELSE ExceptClause(exc, i + 1)

\* The trial loop over the configured client ids, from index i on.  After
\* the loop the code decodes the token once more without verification, only
\* to log its audience; that changes neither state nor outcome.
RECURSIVE TryClientIds(_, _, _, _, _, _)
TryClientIds(cls, id_token, key, i, last_error, tried) ==
    LET ids == cls.cognito_client_ids
        expected_issuer == IssuerString(cls.cognito_region, cls.cognito_user_pool_id)
    IN
    IF i > Len(ids)
    THEN Verified(cls,
                  IF last_error # None THEN Raise("ValueError", MsgAudience)
                  ELSE Raise("ValueError", MsgAllFailed),
                  1, key, tried)
    ELSE
        LET d == jwt_decode(id_token, key, ids[i], expected_issuer)
            now == Append(tried, ids[i])
            clause == ExceptClause(d.exc, 1)
        IN
        IF d.exc = None THEN Verified(cls, Return, 1, key, now)
        ELSE IF clause = "ExpiredSignatureError"
        THEN Verified(cls, Raise("ValueError", MsgExpired), 1, key, now)
        ELSE IF clause = "InvalidIssuerError"
        THEN Verified(cls, Raise("ValueError", MsgIssuer), 1, key, now)
        ELSE IF clause = "AttributeError"
        THEN Verified(cls, Raise("AttributeError", "jwt.InvalidAudienceError"), 1, key, now)
        ELSE TryClientIds(cls, id_token, key, i + 1, d.exc, now)

\* next((k for k in keys if k["kid"] == kid), None): the first key whose kid
\* is the token's; k["kid"] raises KeyError on a key without the member.
RECURSIVE FindKey(_, _, _)
FindKey(keys, kid, i) ==
    IF i > Len(keys) THEN [exc |-> None, key |-> NoKey]
    ELSE IF keys[i].kid = NoKid THEN [exc |-> "KeyError", key |-> NoKey]
    ELSE IF keys[i].kid = kid THEN [exc |-> None, key |-> keys[i]]
    ELSE FindKey(keys, kid, i + 1)

\* get_cognito_jwks: requests.get, raise_for_status, response.json()["keys"].
get_cognito_jwks(cls, resp) ==
    IF resp.status = "ok" THEN [exc |-> None, keys |-> resp.keys]
    ELSE IF resp.status = "unreachable" THEN [exc |-> "ConnectionError", keys |-> <<>>]
    ELSE IF resp.status = "http_error" THEN [exc |-> "HTTPError", keys |-> <<>>]
    ELSE [exc |-> "KeyError", keys |-> <<>>]

\* verify_id_token from the key lookup on.
\* Mutation: the loop consumes the client ids it has tried.
verify_from_keys_popping(cls, id_token, kid, keys) ==
    LET f == FindKey(keys, kid, 1)
        v == TryClientIds(cls, id_token, f.key, 1, None, <<>>)
    IN
    IF f.exc # None THEN Verified(cls, Raise(f.exc, "kid"), 1, NoKey, <<>>)
    ELSE IF f.key = NoKey THEN Verified(cls, Raise("ValueError", MsgNoKey), 1, NoKey, <<>>)
    ELSE [v EXCEPT !.cls.cognito_client_ids =
              SubSeq(cls.cognito_client_ids, Len(v.tried) + 1, Len(cls.cognito_client_ids))]
verify_from_keys(cls, id_token, kid, keys) ==
    LET f == FindKey(keys, kid, 1) IN
    IF f.exc # None THEN Verified(cls, Raise(f.exc, "kid"), 1, NoKey, <<>>)
    ELSE IF f.key = NoKey THEN Verified(cls, Raise("ValueError", MsgNoKey), 1, NoKey, <<>>)
    ELSE TryClientIds(cls, id_token, f.key, 1, None, <<>>)

\* verify_id_token from the key-set fetch on.
verify_from_fetch(cls, id_token, kid, resp) ==
    LET j == get_cognito_jwks(cls, resp) IN
    IF j.exc # None THEN Verified(cls, Raise("ValueError", MsgNoJwks), 1, NoKey, <<>>)
    ELSE verify_from_keys(cls, id_token, kid, j.keys)

\* verify_id_token from the header decoding on.
verify_from_header(cls, id_token, resp) ==
    LET h == get_unverified_header(id_token) IN
    IF h.exc # None \/ h.kid = NoKid
    THEN Verified(cls, Raise("ValueError", MsgBadHeader), 0, NoKey, <<>>)
    ELSE verify_from_fetch(cls, id_token, h.kid, resp)

\* Mutation: the configuration is not checked before the header is decoded.
verify_id_token_no_config_check(cls, id_token, resp) ==
    verify_from_header(cls, id_token, resp)
\* verify_id_token: the configuration check, then the rest.
verify_id_token(cls, id_token, resp) ==
    IF Falsy(cls.cognito_user_pool_id)
    THEN Verified(cls, Raise("ValueError", MsgNoPool), 0, NoKey, <<>>)
    ELSE IF Len(cls.cognito_client_ids) = 0
    THEN Verified(cls, Raise("ValueError", MsgNoClients), 0, NoKey, <<>>)
    ELSE verify_from_header(cls, id_token, resp)

\* ------------------------------------------------ IdTokenWithJose.get_user
\* User(id=claims.get("sub", ""), email=claims.get("email", ""), ...): a
\* one-element sequence; the empty sequence is get_user's None.
NoUser == <<>>
User(claims) == << [id |-> claims.sub, email |-> claims.email] >>

\* The record of one get_user call: the verify_id_token record (when it was
\* called), the User returned or None, the calls made, in order, and the
\* class of the exception that left get_user (None: it returned).
GotUser(v, user, calls) ==
    [cls |-> v.cls, out |-> v.out, net |-> v.net, key |-> v.key,
     tried |-> v.tried, user |-> user, calls |-> calls, raised |-> None]
GotRaise(v, calls) == [GotUser(v, NoUser, calls) EXCEPT !.raised = v.out.exc]
NotVerified(cls) == Verified(cls, Raise(None, None), 0, NoKey, <<>>)
CallsOf(v) ==
    IF v.net > 0 THEN <<"get_user", "verify_id_token", "get_cognito_jwks">>
    ELSE <<"get_user", "verify_id_token">>

\* Mutation: token_use is not compared with "id".
get_user_any_token_use(cls, cognito_id_token, resp) ==
    LET v == verify_id_token(cls, cognito_id_token.tok, resp) IN
    IF cognito_id_token.kind # "token" THEN GotUser(NotVerified(cls), NoUser, <<"get_user">>)
    ELSE IF v.out.kind = "raise" THEN GotUser(v, NoUser, CallsOf(v))
    ELSE GotUser(v, User(cognito_id_token.tok), CallsOf(v))
\* Mutation: the exception of verify_id_token is not caught.
get_user_no_catch(cls, cognito_id_token, resp) ==
    LET v == verify_id_token(cls, cognito_id_token.tok, resp) IN
    IF cognito_id_token.kind # "token" THEN GotUser(NotVerified(cls), NoUser, <<"get_user">>)
    ELSE IF v.out.kind = "raise" THEN GotRaise(v, CallsOf(v))
    ELSE IF cognito_id_token.tok.token_use # "id" THEN GotUser(v, NoUser, CallsOf(v))
    ELSE GotUser(v, User(cognito_id_token.tok), CallsOf(v))
\* get_user as written: except Exception catches every exception modelled.
get_user(cls, cognito_id_token, resp) ==
    LET v == verify_id_token(cls, cognito_id_token.tok, resp) IN
    IF cognito_id_token.kind # "token" THEN GotUser(NotVerified(cls), NoUser, <<"get_user">>)
    ELSE IF v.out.kind = "raise" THEN GotUser(v, NoUser, CallsOf(v))
    ELSE IF cognito_id_token.tok.token_use # "id" THEN GotUser(v, NoUser, CallsOf(v))
    ELSE GotUser(v, User(cognito_id_token.tok), CallsOf(v))

\* ------------------------------------------------- api.py: get_hello_world
\* The record of one request: the get_user record and the HTTP status (401
\* from the two HTTPExceptions raised in the try block and re-raised as they
\* are, 500 from the except Exception clause, 200 for the greeting).
Answered(g, status) ==
    [cls |-> g.cls, out |-> g.out, net |-> g.net, key |-> g.key, tried |-> g.tried,
     user |-> g.user, calls |-> g.calls, raised |-> g.raised,
     status |-> status]

\* Mutation: the handler does not test the header before calling get_user.
get_hello_world_no_header_check(cls, id_token, resp) ==
    LET g == get_user(cls, id_token, resp) IN
    IF g.raised # None THEN Answered(g, 500)
    ELSE IF g.user = NoUser THEN Answered(g, 401)
    ELSE Answered(g, 200)
get_hello_world(cls, id_token, resp) ==
    LET g == get_user(cls, id_token, resp) IN
    IF id_token.kind # "token"
    THEN Answered(GotUser(NotVerified(cls), NoUser, <<>>), 401)
    ELSE IF g.raised # None THEN Answered(g, 500)
    ELSE IF g.user = NoUser THEN Answered(g, 401)
    ELSE Answered(g, 200)

\* Whether the request sends the key-set request: the call blocks there.
Unreachable == [status |-> "unreachable", keys |-> <<>>]
ReachesFetch(cls, id_token) == get_hello_world(cls, id_token, Unreachable).net > 0

\* ------------------------------------------------------ initialize()
\* The environment variables initialize() reads and the parameter store it
\* asks.  INFRASTRUCTURE_CONFIG_JSON is unset (or empty), not JSON, JSON that
\* is no object, or an object whose "services" follow the documented form:
\* each has a stackType and an auth block {"enabled": bool} or none.
ServiceNames == <<"s1", "s2", "s3">>
StackTypes == {"STATIC_FRONTEND", "LAMBDA"}
NoAuth == [present |-> FALSE, enabled |-> None]
AuthBlocks ==
    { NoAuth, [present |-> TRUE, enabled |-> "true"], [present |-> TRUE, enabled |-> "false"] }
ServiceLists ==
    UNION { { [i \in 1..k |-> [name |-> ServiceNames[i], stackType |-> f[i][1], auth |-> f[i][2]]] :
                f \in [1..k -> StackTypes \X AuthBlocks] } : k \in 0..MaxClients }
ConfigDocs ==
    { [kind |-> "object", services |-> ss] : ss \in ServiceLists }
    \cup { [kind |-> k, services |-> <<>>] : k \in {"absent", "malformed", "not_object"} }
PipelineIds == {None, "pl"}
Environments ==
    [ AWS_REGION : EnvRegions, DEPLOYMENT_ID : EnvDeployments,
      INFRASTRUCTURE_CONFIG_JSON : ConfigDocs, PIPELINE_ID : PipelineIds ]

\* What the parameter store answers a get_parameter call: the value, the
\* ClientError ParameterNotFound, or another ClientError.
NotFound == "ParameterNotFound"
Denied == "AccessDeniedException"
PoolAnswers == (PoolIds \ {None}) \cup {NotFound, Denied}
ClientIdAnswers == Clients \cup {NotFound, Denied}

\* try: ... except <clauses>: the exception that leaves the block when its
\* body raised exc (None: none was raised, or a clause caught it).
Caught(exc, clauses) == \E i \in 1..Len(clauses) : IsInstance(exc, clauses[i])
Leaves(exc, clauses) == IF exc = None \/ Caught(exc, clauses) THEN None ELSE exc
\* Mutation: the try blocks of initialize() catch ClientError only.
InitExceptClauses_narrow == <<"ClientError">>
\* The except clause of every try block of initialize() but the JSON one,
\* and the two clauses of the JSON one.
InitExceptClauses == <<"Exception">>
JsonExceptClauses == <<"JSONDecodeError", "Exception">>

\* ParametersWithSSM.set_environment: raises for a missing variable.
ParametersWithSSM_set_environment(aws_region, deployment_id) ==
    IF aws_region = None \/ deployment_id = None THEN "Exception" ELSE None
\* ParametersWithSSM.initialize: creates the client; ssm.client tells whether
\* Session.client succeeds in this process (it is tried again by every
\* lookup while no client exists).
ParametersWithSSM_initialize(ssm) == IF ssm.client THEN None ELSE "BotoCoreError"
\* get_congito_user_pool_id / get_cognito_client_id: the value, None for
\* ParameterNotFound, the ClientError raised again for any other.
get_parameter(ssm, answer) ==
    IF ~ssm.client THEN [exc |-> "BotoCoreError", value |-> None]
    ELSE IF answer = NotFound THEN [exc |-> None, value |-> None]
    ELSE IF answer = Denied THEN [exc |-> "ClientError", value |-> None]
    ELSE [exc |-> None, value |-> answer]

\* Mutation: the auth block is not looked at.
RECURSIVE frontend_services_any_auth(_, _)
frontend_services_any_auth(services, i) ==
    IF i > Len(services) THEN <<>>
    ELSE (IF services[i].stackType = "STATIC_FRONTEND" THEN <<services[i].name>> ELSE <<>>)
         \o frontend_services_any_auth(services, i + 1)
\* The selection loop: the names of the STATIC_FRONTEND services whose auth
\* block is truthy and whose "enabled" is not False, in document order.
RECURSIVE frontend_services(_, _)
frontend_services(services, i) ==
    IF i > Len(services) THEN <<>>
    ELSE LET service == services[i]
             auth == service.auth
             auth_enabled == auth.present /\ auth.enabled # "false"
         IN  (IF service.stackType = "STATIC_FRONTEND" /\ auth_enabled
              THEN <<service.name>> ELSE <<>>)
             \o frontend_services(services, i + 1)

\* The lookup loop: one lookup per selected service, each in a try block of
\* its own; acc is the list so far, the names asked, the exception leaving.
NoLookups == [ids |-> <<>>, lookups |-> <<>>, raised |-> None]
RECURSIVE client_id_lookups(_, _, _, _)
client_id_lookups(ssm, names, i, acc) ==
    IF i > Len(names) \/ acc.raised # None THEN acc
    ELSE LET got == get_parameter(ssm, ssm.client_id[names[i]]) IN
         client_id_lookups(ssm, names, i + 1,
            [ids |-> IF got.exc = None /\ ~Falsy(got.value)
                     THEN Append(acc.ids, got.value) ELSE acc.ids,
             lookups |-> Append(acc.lookups, names[i]),
             raised |-> Leaves(got.exc, InitExceptClauses)])

\* The block that parses INFRASTRUCTURE_CONFIG_JSON (entered when it is set).
parse_config(doc, ssm) ==
    IF doc.kind = "malformed"
    THEN [NoLookups EXCEPT !.raised = Leaves("JSONDecodeError", JsonExceptClauses)]
    ELSE IF doc.kind = "not_object"
    THEN [NoLookups EXCEPT !.raised = Leaves("AttributeError", JsonExceptClauses)]
    ELSE LET r == client_id_lookups(ssm, frontend_services(doc.services, 1), 1, NoLookups) IN
         [r EXCEPT !.raised = Leaves(r.raised, JsonExceptClauses)]

\* Mutation: the fallback lookup is made whenever PIPELINE_ID is set, and
\* its client id appended.
fallback_always(pipeline_id, ssm, cognito_client_ids) ==
    LET got == get_parameter(ssm, ssm.pipeline_client_id) IN
    IF ~Falsy(pipeline_id)
    THEN [performed |-> TRUE,
          ids |-> IF got.exc = None /\ ~Falsy(got.value)
                  THEN Append(cognito_client_ids, got.value) ELSE cognito_client_ids,
          raised |-> Leaves(got.exc, InitExceptClauses)]
    ELSE [performed |-> FALSE, ids |-> cognito_client_ids, raised |-> None]
\* The fallback: one lookup keyed by PIPELINE_ID when the list is empty.
fallback(pipeline_id, ssm, cognito_client_ids) ==
    LET got == get_parameter(ssm, ssm.pipeline_client_id) IN
    IF Len(cognito_client_ids) = 0 /\ ~Falsy(pipeline_id)
    THEN [performed |-> TRUE,
          ids |-> IF got.exc = None /\ ~Falsy(got.value)
                  THEN Append(cognito_client_ids, got.value) ELSE cognito_client_ids,
          raised |-> Leaves(got.exc, InitExceptClauses)]
    ELSE [performed |-> FALSE, ids |-> cognito_client_ids, raised |-> None]

\* The blocks of initialize() in order: those entered before an exception
\* left one, and that exception (None: initialize() returned).
RECURSIVE RunBlocks(_, _, _)
RunBlocks(blocks, i, steps) ==
    IF i > Len(blocks) THEN [steps |-> steps, raised |-> None]
    ELSE IF ~blocks[i].entered THEN RunBlocks(blocks, i + 1, steps)
    ELSE IF blocks[i].raised # None
    THEN [steps |-> Append(steps, blocks[i].name), raised |-> blocks[i].raised]
    ELSE RunBlocks(blocks, i + 1, Append(steps, blocks[i].name))
Block(name, entered, raised) == [name |-> name, entered |-> entered, raised |-> raised]

\* infrastructure.initialize: the class attributes it publishes (the region
\* of the pool is AWS_REGION), the blocks it ran, the names it looked up.
initialize(env, ssm) ==
    LET pool == get_parameter(ssm, ssm.pool)
        cognito_user_pool_id == IF pool.exc = None THEN pool.value ELSE None
        doc == env.INFRASTRUCTURE_CONFIG_JSON
        parsed == IF doc.kind = "absent" THEN NoLookups ELSE parse_config(doc, ssm)
        fell == fallback(env.PIPELINE_ID, ssm, parsed.ids)
        run == RunBlocks(
            << Block("parameters", TRUE,
                     Leaves(ParametersWithSSM_set_environment(env.AWS_REGION, env.DEPLOYMENT_ID),
                            InitExceptClauses)),
               Block("ssm_client", TRUE, Leaves(ParametersWithSSM_initialize(ssm), InitExceptClauses)),
               Block("pool_id", TRUE, Leaves(pool.exc, InitExceptClauses)),
               Block("config", doc.kind # "absent", parsed.raised),
               Block("fallback", fell.performed, fell.raised),
               Block("publish", TRUE, None) >>, 1, <<>>)
        ran(name) == \E i \in 1..Len(run.steps) : run.steps[i] = name
    IN  [ cls |-> IF ran("publish") /\ run.raised = None
                  THEN set_environment(env.AWS_REGION, env.DEPLOYMENT_ID, env.AWS_REGION,
                                       cognito_user_pool_id, fell.ids)
                  ELSE ClassDefaults,
          raised |-> run.raised,
          steps |-> run.steps,
          lookups |-> IF ran("config") THEN parsed.lookups ELSE <<>>,
          discovered |-> IF ran("config") THEN parsed.ids ELSE <<>>,
          fallback |-> ran("fallback") ]

\* The parameter stores that differ in what initialize() can see: without a
\* client nothing is asked; the fallback parameter is asked only when
\* discovery found nothing and PIPELINE_ID is set.
ParameterStores(env) ==
    LET names == frontend_services(env.INFRASTRUCTURE_CONFIG_JSON.services, 1)
        asked == { names[i] : i \in 1..Len(names) }
        all == [ client : BOOLEAN, pool : PoolAnswers,
                 client_id : [asked -> ClientIdAnswers],
                 pipeline_client_id : ClientIdAnswers ]
    IN  { ssm \in all :
            /\ ~ssm.client =>
                  /\ ssm.pool = NotFound /\ ssm.pipeline_client_id = NotFound
                  /\ \A n \in asked : ssm.client_id[n] = NotFound
            /\ ~initialize(env, ssm).fallback => ssm.pipeline_client_id = NotFound }

\* ------------------------------------------------------ lambda_handler
\* An event of the payments lambda, by what the dispatch looks at: whether it
\* is a JSON object at all (if not, an array), its "Records", the members
\* present, and "requestContext" (absent, null, an object without or with
\* "http").
NoEvent ==
    [ dict |-> FALSE, Records |-> "absent", httpMethod |-> FALSE, path |-> FALSE,
      requestContext |-> "absent", version |-> FALSE, routeKey |-> FALSE ]
Events ==
    [ dict : {TRUE}, Records : {"absent", "empty", "nonempty"},
      httpMethod : BOOLEAN, path : BOOLEAN,
      requestContext : {"absent", "null", "no_http", "http"},
      version : BOOLEAN, routeKey : BOOLEAN ]
    \cup { NoEvent }
\* What handle_sqs_event and handle_api_gateway_event do with the event they
\* are given: return a response or raise.
HandlerOutcomes == {"returns", "raises"}

\* is_api_gateway_event: its value, or the exception it raises.
is_api_gateway_event(event) ==
    IF event.httpMethod /\ event.path THEN [exc |-> None, value |-> TRUE]
    ELSE IF event.requestContext = "null" THEN [exc |-> "TypeError", value |-> FALSE]
    ELSE IF event.requestContext = "http" THEN [exc |-> None, value |-> TRUE]
    ELSE IF event.version /\ event.routeKey THEN [exc |-> None, value |-> TRUE]
    ELSE [exc |-> None, value |-> FALSE]

\* The outcome of lambda_handler: the branch that produced the response, its
\* statusCode (of a sub-handler's response, 200 stands for whatever it
\* returned), and the exception that left lambda_handler (None: it returned).
Response(route, statusCode) == [route |-> route, statusCode |-> statusCode, raised |-> None]
\* The body of the try block: a response, or raised set to the exception.
Dispatch(event, sqs, http) ==
    LET gw == is_api_gateway_event(event) IN
    IF event.dict /\ event.Records = "nonempty"
    THEN (IF sqs = "raises" THEN [Response("sqs", 0) EXCEPT !.raised = "Exception"]
          ELSE Response("sqs", 200))
    ELSE IF gw.exc # None THEN [Response("http", 0) EXCEPT !.raised = gw.exc]
    ELSE IF gw.value
    THEN (IF http = "raises" THEN [Response("http", 0) EXCEPT !.raised = "Exception"]
          ELSE Response("http", 200))
    ELSE IF ~event.dict THEN [Response("unknown", 0) EXCEPT !.raised = "AttributeError"]
    ELSE Response("unknown", 400)
\* Mutation: the API Gateway test comes first, as in src/api/src/handler.py.
lambda_handler_http_first(event, sqs, http) ==
    LET gw == is_api_gateway_event(event) IN
    IF gw.exc # None THEN Response("error", 500)
    ELSE IF gw.value
    THEN (IF http = "raises" THEN Response("error", 500) ELSE Response("http", 200))
    ELSE IF Dispatch(event, sqs, http).raised # None THEN Response("error", 500)
    ELSE Dispatch(event, sqs, http)
\* lambda_handler: except Exception turns what the body raised into a 500.
lambda_handler(event, sqs, http) ==
    LET body == Dispatch(event, sqs, http) IN
    IF body.raised # None /\ IsInstance(body.raised, "Exception")
    THEN Response("error", 500)
    ELSE body

\* ---------------------------------------------------- handle_sqs_event
\* The body of a queue record, by what the handler looks at: whether it is
\* JSON, whether that JSON is an object, and the object's "source" member.
EnvelopeSources == {"ApiGatewayV1SQSLambda", "HttpApiV2SQSLambda"}
Bodies ==
    { [json |-> FALSE, dict |-> FALSE, source |-> None],
      [json |-> TRUE, dict |-> FALSE, source |-> None],
      [json |-> TRUE, dict |-> TRUE, source |-> "Other"] }
    \cup { [json |-> TRUE, dict |-> TRUE, source |-> src] : src \in EnvelopeSources }
\* What replaying a request does: the application answers, client.post
\* raises (the route's exception), or the TestClient context raises.
ReplayOutcomes == {"responds", "post_raises", "client_raises"}
\* A record: its eventSource, its body and, for a queued request of the
\* queue service, what its replay does.
QueueRecords ==
    { r \in [eventSource : {"aws:sqs", "aws:s3"}, body : Bodies, replay : ReplayOutcomes] :
        r.replay # "responds" => (r.eventSource = "aws:sqs" /\ r.body.source \in EnvelopeSources) }
RecordLists == SeqsUpTo(QueueRecords, MaxRecords) \ {<<>>}

\* The application whose routes serve live HTTP (Mangum(app)) and the one
\* the replay posts to (TestClient(app)): both are api.app.
MangumApp == "api.app"
TestClientApp == "api.app"

\* A result of the batch, or the exception raised instead of one.
Result(message_id, status) == [messageId |-> message_id, status |-> status, exc |-> None]
Posted(message_id) == [messageId |-> message_id, app |-> TestClientApp, method |-> "POST", path |-> "/webhook"]

\* json.loads(message_body).
json_loads(body) == IF body.json THEN None ELSE "JSONDecodeError"
\* is_api_gateway_sqs_message.
is_api_gateway_sqs_message(message_body) ==
    /\ message_body.dict
    /\ message_body.source # None
    /\ message_body.source \in EnvelopeSources
\* process_api_gateway_v1_sqs_message and process_api_gateway_v2_sqs_message:
\* the request is posted inside "with TestClient(app)"; an exception of
\* client.post is caught there, one of the context is not.
process_api_gateway_vN_sqs_message(record, message_id) ==
    IF record.replay = "client_raises" THEN [Result(message_id, "none") EXCEPT !.exc = "Exception"]
    ELSE IF record.replay = "post_raises" THEN Result(message_id, "fastapi_error")
    ELSE Result(message_id, "processed_via_fastapi")
\* Mutation: the exception of the replay is not caught.
process_api_gateway_sqs_message_no_catch(record, message_id) ==
    IF record.body.source \in EnvelopeSources
    THEN process_api_gateway_vN_sqs_message(record, message_id)
    ELSE Result(message_id, "unknown_source")
\* process_api_gateway_sqs_message: except Exception gives an 'error' result.
process_api_gateway_sqs_message(record, message_id) ==
    LET r == IF record.body.source \in EnvelopeSources
             THEN process_api_gateway_vN_sqs_message(record, message_id)
             ELSE Result(message_id, "unknown_source")
    IN  IF r.exc # None /\ IsInstance(r.exc, "Exception") THEN Result(message_id, "error") ELSE r

\* The body of the loop for the record at index i (its messageId): the result
\* appended, or the exception that leaves the loop; the try block around the
\* parse and the replay catches JSONDecodeError only.
process_record(record, i) ==
    LET r == IF json_loads(record.body) # None
             THEN [Result(i, "none") EXCEPT !.exc = json_loads(record.body)]
             ELSE IF is_api_gateway_sqs_message(record.body)
             THEN process_api_gateway_sqs_message(record, i)
             ELSE Result(i, "processed")
    IN  IF r.exc = "JSONDecodeError" THEN Result(i, "processed_as_text") ELSE r
Replays(record) ==
    json_loads(record.body) = None /\ is_api_gateway_sqs_message(record.body)

\* handle_sqs_event: the loop over Records from index i on, then the response.
NoBatchOut ==
    [statusCode |-> 0, processed_count |-> 0, messages |-> <<>>, posted |-> <<>>, raised |-> None]
RECURSIVE handle_sqs_event(_, _, _)
handle_sqs_event(records, i, acc) ==
    IF i > Len(records)
    THEN [acc EXCEPT !.statusCode = 200, !.processed_count = Len(acc.messages)]
    ELSE IF records[i].eventSource # "aws:sqs" THEN handle_sqs_event(records, i + 1, acc)
    ELSE LET r == process_record(records[i], i)
             posted == IF Replays(records[i]) THEN Append(acc.posted, Posted(i)) ELSE acc.posted
         IN  IF r.exc # None
             THEN [acc EXCEPT !.posted = posted, !.raised = r.exc]
             ELSE handle_sqs_event(records, i + 1,
                      [acc EXCEPT !.posted = posted, !.messages = Append(acc.messages, r)])

\* ------------------------------------------------------------------ state
VARIABLES
    cls,        \* the class attributes of IdTokenWithJose
    booted,     \* handler.py has been imported
    published,  \* what set_environment published last (ClassDefaults: nothing)
    pc,         \* "idle", "imported", "crashed", "fetching" (a request waits
                \* for the key set), "hung" (it waits for good), "answered",
                \* "dispatched", "batched"
    boot,       \* the run of initialize() just finished (NoBoot: none)
    disp,       \* the invocation just dispatched (NoDisp: none)
    batch,      \* the queue event just handled (NoBatch: none)
    hdr,        \* the X-IdToken header of the current or last request
    jwks,       \* the key-set response of the current or last request
    res,        \* the record of the last request answered (NoRes: none yet)
    rep         \* the request repeats the one before it: that one's outcome

vars == <<cls, booted, published, pc, boot, disp, batch, hdr, jwks, res, rep>>

NoRes == Answered(GotUser(NotVerified(ClassDefaults), NoUser, <<>>), 0)
NoRep == [on |-> FALSE, user |-> NoUser, status |-> 0]
NoEnv ==
    [ AWS_REGION |-> None, DEPLOYMENT_ID |-> None, PIPELINE_ID |-> None,
      INFRASTRUCTURE_CONFIG_JSON |-> [kind |-> "absent", services |-> <<>>] ]
NoSsm == [client |-> FALSE, pool |-> NotFound, client_id |-> <<>>, pipeline_client_id |-> NotFound]
Booted(env, ssm, again, before) ==
    [ on |-> TRUE, env |-> env, ssm |-> ssm, run |-> initialize(env, ssm),
      again |-> again, before |-> before ]
NoBoot == [Booted(NoEnv, NoSsm, FALSE, ClassDefaults) EXCEPT !.on = FALSE]

Dispatched(event, sqs, http) ==
    [on |-> TRUE, event |-> event, sqs |-> sqs, http |-> http, out |-> lambda_handler(event, sqs, http)]
NoDisp == [Dispatched(NoEvent, "returns", "returns") EXCEPT !.on = FALSE]

Batched(records) == [on |-> TRUE, records |-> records, out |-> handle_sqs_event(records, 1, NoBatchOut)]
NoBatch == [on |-> FALSE, records |-> <<>>, out |-> NoBatchOut]

Init ==
    /\ cls = ClassDefaults
    /\ booted = FALSE
    /\ published = ClassDefaults
    /\ pc = "idle"
    /\ boot = NoBoot
    /\ disp = NoDisp
    /\ batch = NoBatch
    /\ hdr = NoHeader
    /\ jwks = NotFetched
    /\ res = NoRes
    /\ rep = NoRep

\* handler.py is imported outside Lambda (AWS_EXECUTION_ENV unset):
\* initialize() is not run.
ImportWithoutInitialize ==
    /\ ~booted
    /\ booted' = TRUE
    /\ UNCHANGED <<cls, published, pc, boot, disp, batch, hdr, jwks, res, rep>>

\* handler.py is imported in Lambda: initialize() runs to its end, or the
\* import dies of the exception that leaves it.
ImportAndInitialize ==
    /\ ~booted
    /\ pc = "idle"
    /\ \E env \in Environments :
       \E ssm \in ParameterStores(env) :
          /\ boot' = Booted(env, ssm, FALSE, cls)
          /\ cls' = initialize(env, ssm).cls
          /\ published' = initialize(env, ssm).cls
          /\ booted' = (initialize(env, ssm).raised = None)
          /\ pc' = IF initialize(env, ssm).raised = None THEN "imported" ELSE "crashed"
    /\ UNCHANGED <<disp, batch, hdr, jwks, res, rep>>

\* The import is over: the process waits for its first invocation.
Serve ==
    /\ pc = "imported"
    /\ pc' = "idle"
    /\ boot' = NoBoot
    /\ UNCHANGED <<cls, booted, published, disp, batch, hdr, jwks, res, rep>>

\* initialize() runs once more in the process and reaches
\* IdTokenWithJose.set_environment again, with what it found this time.
SetEnvironmentAgain ==
    /\ booted
    /\ published # ClassDefaults
    /\ pc = "idle"
    /\ \E a \in EnvRegions, d \in EnvDeployments, p \in PoolIds, ids \in ClientLists :
          /\ cls' = set_environment(a, d, a, p, ids)
          /\ published' = set_environment(a, d, a, p, ids)
    /\ boot' = [NoBoot EXCEPT !.on = TRUE, !.again = TRUE, !.before = cls]
    /\ pc' = "imported"
    /\ UNCHANGED <<booted, disp, batch, hdr, jwks, res, rep>>

\* A request starts and runs until it is answered or blocks in the fetch.
Start(h) ==
    IF ReachesFetch(cls, h)
    THEN /\ pc' = "fetching"
         /\ res' = NoRes
         /\ UNCHANGED cls
    ELSE /\ pc' = "answered"
         /\ res' = get_hello_world(cls, h, NotFetched)
         /\ cls' = get_hello_world(cls, h, NotFetched).cls

\* GET /hello_world arrives.
Request ==
    /\ booted
    /\ pc = "idle"
    /\ \E h \in Headers :
          /\ hdr' = h
          /\ Start(h)
    /\ UNCHANGED <<booted, published, boot, disp, batch, jwks, rep>>

\* The key-set endpoint answers (a repeated request gets the answer the
\* request before it got) and the request runs to its end.
JwksReply ==
    /\ pc = "fetching"
    /\ \E r \in JwksResponses :
          /\ (rep.on /\ jwks # NotFetched) => r = jwks
          /\ jwks' = r
          /\ res' = get_hello_world(cls, hdr, r)
          /\ cls' = get_hello_world(cls, hdr, r).cls
    /\ pc' = "answered"
    /\ UNCHANGED <<booted, published, boot, disp, batch, hdr, rep>>

\* The key-set endpoint accepts the request and never answers:
\* requests.get, called without a timeout, does not return.
EndpointSilent ==
    /\ pc = "fetching"
    /\ pc' = "hung"
    /\ UNCHANGED <<cls, booted, published, boot, disp, batch, hdr, jwks, res, rep>>

\* The client sends the request it was just answered once more.
RepeatRequest ==
    /\ pc = "answered"
    /\ rep' = [on |-> TRUE, user |-> res.user, status |-> res.status]
    /\ Start(hdr)
    /\ UNCHANGED <<booted, published, boot, disp, batch, hdr, jwks>>

\* The runtime invokes lambda_handler with an event; the response goes back
\* to the runtime.  (The route handlers the HTTP path ends in are the
\* requests above.)
Invoke ==
    /\ booted
    /\ pc = "idle"
    /\ \E event \in Events, sqs \in HandlerOutcomes, http \in HandlerOutcomes :
          disp' = Dispatched(event, sqs, http)
    /\ pc' = "dispatched"
    /\ UNCHANGED <<cls, booted, published, boot, batch, hdr, jwks, res, rep>>
Respond ==
    /\ pc = "dispatched"
    /\ pc' = "idle"
    /\ disp' = NoDisp
    /\ UNCHANGED <<cls, booted, published, boot, batch, hdr, jwks, res, rep>>

\* lambda_handler hands a queue event to handle_sqs_event, which works
\* through its Records and returns; the response goes back to the runtime.
HandleSqsEvent ==
    /\ booted
    /\ pc = "idle"
    /\ \E records \in RecordLists : batch' = Batched(records)
    /\ pc' = "batched"
    /\ UNCHANGED <<cls, booted, published, boot, disp, hdr, jwks, res, rep>>
RespondBatch ==
    /\ pc = "batched"
    /\ pc' = "idle"
    /\ batch' = NoBatch
    /\ UNCHANGED <<cls, booted, published, boot, disp, hdr, jwks, res, rep>>

\* The answered request is over: the process waits for the next one.
Finish ==
    /\ pc = "answered"
    /\ pc' = "idle"
    /\ hdr' = NoHeader
    /\ jwks' = NotFetched
    /\ res' = NoRes
    /\ rep' = NoRep
    /\ UNCHANGED <<cls, booted, published, boot, disp, batch>>

Next ==
    \/ ImportWithoutInitialize
    \/ ImportAndInitialize
    \/ Serve
    \/ SetEnvironmentAgain
    \/ Request
    \/ JwksReply
    \/ EndpointSilent
    \/ Invoke
    \/ Respond
    \/ HandleSqsEvent
    \/ RespondBatch
    \/ RepeatRequest
    \/ Finish

Spec == Init /\ [][Next]_vars

\* ------------------------------------------------------------ the claims
\* The vocabulary of the claims, over the request just answered.
Answer == pc = "answered"
HasToken == hdr.kind = "token"
ConfigComplete == ~Falsy(cls.cognito_user_pool_id) /\ Len(cls.cognito_client_ids) > 0
ExpectedIssuer == IssuerString(cls.cognito_region, cls.cognito_user_pool_id)
KidExtracted == hdr.tok.form = "jwt" /\ hdr.tok.kid # NoKid
Configured(aud) == \E k \in 1..Len(cls.cognito_client_ids) : cls.cognito_client_ids[k] = aud
\* The key set was fetched and its i-th key is the first that carries the
\* token's kid.
Names(i) ==
    /\ jwks.status = "ok"
    /\ i \in 1..Len(jwks.keys)
    /\ jwks.keys[i].kid = hdr.tok.kid
    /\ \A j \in 1..(i - 1) : jwks.keys[j].kid # hdr.tok.kid
\* The trial loop is reached with a key the token's signature verifies with.
ValidlySigned ==
    /\ HasToken /\ ConfigComplete /\ KidExtracted
    /\ \E i \in 1..Len(jwks.keys) :
          /\ Names(i)
          /\ \A j \in 1..(i - 1) : jwks.keys[j].kid # NoKid
          /\ jwks.keys[i].n = hdr.tok.sig

\* C1: get_user returns a User only if the kid of the token's header names a
\* key of the fetched key set, the signature verifies with that key, the
\* token is not expired, its issuer is the expected one, its audience is one
\* of the configured client ids and token_use is "id".
C1_AcceptanceSound ==
    (Answer /\ res.user # NoUser) =>
        /\ HasToken /\ KidExtracted
        /\ \E i \in 1..Len(jwks.keys) : Names(i) /\ jwks.keys[i].n = hdr.tok.sig
        /\ ~hdr.tok.expired
        /\ hdr.tok.iss = ExpectedIssuer
        /\ Configured(hdr.tok.aud)
        /\ hdr.tok.token_use = "id"
C1_Witness == Answer /\ res.user = User(hdr.tok) /\ res.status = 200

\* C2: a validly signed, unexpired token with the expected issuer whose
\* audience is the k-th configured client id, k > 1, is verified: the
\* mismatches before k do not end the trial loop.
C2_KthAudienceVerifies ==
    ( /\ Answer /\ ValidlySigned /\ ~hdr.tok.expired /\ hdr.tok.iss = ExpectedIssuer
      /\ \E k \in 2..Len(cls.cognito_client_ids) : cls.cognito_client_ids[k] = hdr.tok.aud )
    => res.out = Return

\* C3: a validly signed, unexpired token with the expected issuer and an
\* audience that is no configured client id is tried against every
\* configured client id, in order, and then fails as an audience mismatch.
C3_EveryAudienceTried ==
    ( /\ Answer /\ ValidlySigned /\ ~hdr.tok.expired /\ hdr.tok.iss = ExpectedIssuer
      /\ ~Configured(hdr.tok.aud) )
    => /\ res.tried = cls.cognito_client_ids
       /\ res.out = Raise("ValueError", MsgAudience)

\* C4: a validly signed token whose expiry has passed fails as expired,
\* whatever its audience and the configured list, on the first attempt.
C4_ExpiredShortCircuits ==
    (Answer /\ ValidlySigned /\ hdr.tok.expired) =>
        /\ res.out = Raise("ValueError", MsgExpired)
        /\ res.tried = <<cls.cognito_client_ids[1]>>
C4_Witness ==
    /\ Answer /\ ValidlySigned /\ hdr.tok.expired
    /\ Len(cls.cognito_client_ids) = 2
    /\ hdr.tok.aud = cls.cognito_client_ids[2]
    /\ hdr.tok.aud # cls.cognito_client_ids[1]
    /\ res.out.msg = MsgExpired

\* C5: a validly signed, unexpired token whose issuer is not the expected one
\* fails as an issuer mismatch, whatever its audience, and no audience is
\* tried after that failure.
C5_IssuerMismatchReported ==
    (Answer /\ ValidlySigned /\ ~hdr.tok.expired /\ hdr.tok.iss # ExpectedIssuer) =>
        /\ res.out = Raise("ValueError", MsgIssuer)
        /\ Len(res.tried) = 1

\* C6: a token whose kid is the kid of no key of the fetched key set fails
\* with "Public key not found" before any audience is tried, whatever the
\* key set holds.
C6_UnknownKidReported ==
    ( /\ Answer /\ HasToken /\ ConfigComplete /\ KidExtracted /\ jwks.status = "ok"
      /\ \A i \in 1..Len(jwks.keys) : jwks.keys[i].kid # hdr.tok.kid )
    => /\ res.out = Raise("ValueError", MsgNoKey)
       /\ res.tried = <<>>

\* C7: the key set is requested only with a complete configuration and a
\* kid extracted; an incomplete configuration fails with the configuration
\* error (also for a malformed token) and a header without kid with the
\* malformed-token error, both without any request to the key-set endpoint.
C7_FetchAfterChecks ==
    /\ (pc = "fetching" \/ (Answer /\ res.net > 0)) => (HasToken /\ ConfigComplete /\ KidExtracted)
    /\ (Answer /\ HasToken /\ ~ConfigComplete) =>
          /\ res.out.exc = "ValueError"
          /\ res.out.msg = (IF Falsy(cls.cognito_user_pool_id) THEN MsgNoPool ELSE MsgNoClients)
          /\ res.net = 0
    /\ (Answer /\ HasToken /\ ConfigComplete /\ ~KidExtracted) =>
          /\ res.out = Raise("ValueError", MsgBadHeader)
          /\ res.net = 0
C7_Witness ==
    /\ Answer /\ HasToken /\ hdr.tok = Garbage
    /\ booted /\ cls.cognito_user_pool_id = "p1" /\ cls.cognito_client_ids = <<>>
    /\ res.out.msg = MsgNoClients /\ res.net = 0

\* C8: verified claims whose token_use is not "id" (absent included) yield
\* no identity; a User is built only for token_use "id".
C8_OnlyIdTokens ==
    Answer =>
        /\ (res.out = Return /\ hdr.tok.token_use # "id") => (res.user = NoUser /\ res.status = 401)
        /\ res.user # NoUser => (res.out = Return /\ hdr.tok.token_use = "id")
C8_Witness ==
    /\ Answer /\ res.out = Return /\ hdr.tok.token_use = None
    /\ res.user = NoUser /\ res.status = 401

\* C9: a request without X-IdToken, or with an empty one, is answered 401
\* and calls neither get_user nor verify_id_token nor the key-set fetch.
C9_NoTokenNoCalls ==
    ~HasToken =>
        /\ pc # "fetching"
        /\ Answer => (res.status = 401 /\ res.calls = <<>> /\ res.net = 0)
C9_Witness == Answer /\ hdr.kind = "empty" /\ res.status = 401 /\ booted /\ ConfigComplete

\* C10: a request leaves the published configuration as it was, and the
\* same token verified twice in succession against the same key set yields
\* the same User.
C10_NoHiddenState ==
    /\ cls = published
    /\ (Answer /\ rep.on) => (res.user = rep.user /\ res.status = rep.status)
C10_Witness ==
    /\ Answer /\ rep.on /\ res.user = User(hdr.tok) /\ rep.user = User(hdr.tok)
    /\ Len(cls.cognito_client_ids) = 2

\* The request failed in verification or in the projection of the claims.
Failed == res.out.kind = "raise" \/ hdr.tok.token_use # "id"

\* C11: every failure of verification or projection ends the request with
\* 401, none with 500, and a request with a token is answered 2xx only when
\* get_user returned a User.
C11_FailuresAre401 ==
    (Answer /\ HasToken) =>
        /\ Failed => res.status = 401
        /\ res.status \in 200..299 => (res.user # NoUser /\ ~Failed)
        /\ res.status \in {200, 401}
C11_Witness ==
    /\ Answer /\ HasToken /\ res.out = Raise("ValueError", MsgNoJwks)
    /\ jwks.status = "http_error" /\ res.status = 401

\* What get_user hands to the route handler: its return value and the
\* exception leaving it.
Handed(g) == <<g.user, g.raised>>
\* The kind of a failure, as verify_id_token and get_user tell them apart
\* (None: the call did not fail).
FailureKind(g, id_token) ==
    IF g.out.kind = "raise" THEN g.out.msg
    ELSE IF id_token.token_use # "id" THEN "NotAnIdentityToken"
    ELSE None

\* C12: the outcome get_user hands to the route handler tells the kinds of
\* failure apart: two tokens that fail in different ways, against the same
\* key set response, are not handed over as the same value.
C12_FailuresStayTyped ==
    (Answer /\ HasToken /\ res.net > 0 /\ Failed) =>
        \A t \in Tokens :
            LET g == get_user(cls, [kind |-> "token", tok |-> t], jwks) IN
            (FailureKind(g, t) \notin {None, FailureKind(res, hdr.tok)})
                => Handed(g) # Handed(res)

\* ---------------------------------------------------------- initialize()
\* initialize() has just run at import.
Initialized == boot.on /\ ~boot.again
Ran(name) == \E i \in 1..Len(boot.run.steps) : boot.run.steps[i] = name
Document == boot.env.INFRASTRUCTURE_CONFIG_JSON
\* A service that qualifies, the qualifying ones in document order, and of
\* those the ones the parameter store holds a client id for.
Qualifies(service) ==
    /\ service.stackType = "STATIC_FRONTEND"
    /\ service.auth.present
    /\ service.auth.enabled # "false"
Answers(service) == boot.ssm.client /\ boot.ssm.client_id[service.name] \in Clients
Selected == SelectSeq(Document.services, Qualifies)
ExpectedLookups == [i \in 1..Len(Selected) |-> Selected[i].name]
ExpectedAudiences ==
    [i \in 1..Len(SelectSeq(Selected, Answers)) |->
        boot.ssm.client_id[SelectSeq(Selected, Answers)[i].name]]

\* C13: whatever is missing from the environment and whatever the parameter
\* store does, initialize() returns, has run every block after a failed one,
\* and has published a configuration through set_environment.
C13_InitializeNeverCrashes ==
    Initialized =>
        /\ boot.run.raised = None /\ pc = "imported" /\ booted
        /\ Ran("parameters") /\ Ran("ssm_client") /\ Ran("pool_id") /\ Ran("publish")
        /\ Ran("config") <=> Document.kind # "absent"
        /\ cls.aws_region # None
        /\ cls = set_environment(boot.env.AWS_REGION, boot.env.DEPLOYMENT_ID, boot.env.AWS_REGION,
                                 cls.cognito_user_pool_id, cls.cognito_client_ids)
C13_Witness ==
    /\ Initialized /\ pc = "imported"
    /\ boot.env.AWS_REGION = None /\ ~boot.ssm.client /\ Document.kind = "malformed"
    /\ boot.run.steps = <<"parameters", "ssm_client", "pool_id", "config", "fallback", "publish">>
    /\ cls.aws_region = "us-east-1" /\ cls.cognito_client_ids = <<>>

NoneDiscovered == Document.kind # "object" \/ ExpectedAudiences = <<>>
C15_FallbackOnlyWhenEmpty ==
    Initialized =>
        /\ boot.run.fallback <=> (NoneDiscovered /\ boot.env.PIPELINE_ID # None)
        /\ ~NoneDiscovered => cls.cognito_client_ids = ExpectedAudiences
        /\ NoneDiscovered =>
              cls.cognito_client_ids \in
                  { <<>> } \cup (IF boot.run.fallback /\ boot.ssm.pipeline_client_id \in Clients
                                 THEN { <<boot.ssm.pipeline_client_id>> } ELSE {})
C15_Witness ==
    /\ Initialized /\ boot.run.fallback
    /\ Document.kind = "object" /\ boot.run.lookups = <<"s1">>
    /\ boot.ssm.client_id["s1"] = NotFound /\ boot.ssm.pipeline_client_id = "cA"
    /\ cls.cognito_client_ids = <<"cA">>

\* ------------------------------------------------ the published singleton
\* set_environment has just been called on a class it had configured before.
WrittenAgain == boot.on /\ boot.again /\ boot.before # ClassDefaults

\* C16: after the first set_environment, neither a repeated call nor a
\* request changes the region, the pool id or the audience list.
C16_FirstWriteWins ==
    /\ WrittenAgain =>
          /\ cls.cognito_region = boot.before.cognito_region
          /\ cls.cognito_user_pool_id = boot.before.cognito_user_pool_id
          /\ cls.cognito_client_ids = boot.before.cognito_client_ids
    /\ Answer => cls = published

\* ------------------------------------------------------------ the fetch
\* A request has been received and not answered yet.
InFlight == pc \in {"fetching", "hung"}

\* C17: a verification call always returns: a request in flight can still
\* take a step, whatever the endpoint does; the key set is requested at most
\* once per call, and an endpoint that cannot be reached ends the call with
\* the key-set-unavailable failure.
C17_EveryCallReturns ==
    /\ InFlight => ENABLED Next
    /\ Answer => res.net <= 1
    /\ (Answer /\ res.net = 1 /\ jwks.status = "unreachable")
          => res.out = Raise("ValueError", MsgNoJwks)

\* ------------------------------------------------- the outcomes of verify
\* The trial loop ran with a key the token's signature does not verify with.
BadlySigned == Answer /\ HasToken /\ res.key # NoKey /\ Len(res.tried) > 0 /\ hdr.tok.sig # res.key.n

C19_ReturnsOrValueError ==
    (Answer /\ HasToken) =>
        \/ res.out.kind = "return"
        \/ res.out.kind = "raise" /\ res.out.exc = "ValueError"

\* --------------------------------------------------------- lambda_handler
HasRecords == disp.event.dict /\ disp.event.Records = "nonempty"
LooksLikeApiGateway ==
    \/ disp.event.httpMethod /\ disp.event.path
    \/ disp.event.requestContext = "http"
    \/ disp.event.version /\ disp.event.routeKey

\* C20: lambda_handler returns for every event: by the queue path when the
\* event has a non-empty Records list, whatever else it carries; otherwise
\* by the HTTP path when is_api_gateway_event holds; otherwise 400; and 500
\* when the handling raised.
C20_OneOfThreeRoutes ==
    disp.on =>
        /\ disp.out.raised = None
        /\ disp.out.route \in {"sqs", "http", "unknown", "error"}
        /\ disp.out.route = "sqs" <=> (HasRecords /\ disp.sqs = "returns")
        /\ disp.out.route = "http" =>
              (~HasRecords /\ LooksLikeApiGateway /\ disp.http = "returns")
        /\ (~HasRecords /\ LooksLikeApiGateway /\ disp.http = "returns"
               /\ ~(disp.event.requestContext = "null" /\ ~(disp.event.httpMethod /\ disp.event.path)))
              => disp.out.route = "http"
        /\ disp.out.route = "unknown" =>
              (~HasRecords /\ ~LooksLikeApiGateway /\ disp.out.statusCode = 400)
        /\ disp.out.route = "error" =>
              /\ disp.out.statusCode = 500
              /\ \/ HasRecords /\ disp.sqs = "raises"
                 \/ ~HasRecords /\ LooksLikeApiGateway /\ disp.http = "raises"
                 \/ ~HasRecords /\ disp.event.requestContext = "null"
                 \/ ~disp.event.dict
C20_Witness ==
    /\ disp.on /\ HasRecords /\ disp.event.httpMethod /\ disp.event.path
    /\ disp.event.requestContext = "http" /\ disp.http = "returns"
    /\ disp.out = Response("sqs", 200)

\* ------------------------------------------------------- handle_sqs_event
\* The indexes of the records of the queue service, in record order, and of
\* those the queued requests.
FromQueue(record) == record.eventSource = "aws:sqs"
QueuedRequest(record) ==
    /\ FromQueue(record)
    /\ record.body.json /\ record.body.dict /\ record.body.source \in EnvelopeSources
Indexes == [i \in 1..Len(batch.records) |-> i]
IsFromQueue(i) == FromQueue(batch.records[i])
IsQueuedRequest(i) == QueuedRequest(batch.records[i])
QueueIndexes == SelectSeq(Indexes, IsFromQueue)
RequestIndexes == SelectSeq(Indexes, IsQueuedRequest)

\* C21: handle_sqs_event answers 200 with one result per record of the queue
\* service, in record order, and their number as processed_count; exactly
\* the queued requests among them are posted to the application that serves
\* live HTTP; a replay that fails is recorded in its record's result and the
\* records after it are still handled.
C21_OneResultPerRecord ==
    batch.on =>
        /\ batch.out.raised = None /\ batch.out.statusCode = 200
        /\ [k \in 1..Len(batch.out.messages) |-> batch.out.messages[k].messageId]
              = QueueIndexes
        /\ batch.out.processed_count = Len(QueueIndexes)
        /\ [k \in 1..Len(batch.out.posted) |-> batch.out.posted[k].messageId]
              = RequestIndexes
        /\ \A k \in 1..Len(batch.out.posted) : batch.out.posted[k].app = MangumApp
        /\ \A k \in 1..Len(batch.out.messages) :
              LET m == batch.out.messages[k]
                  record == batch.records[m.messageId]
              IN  /\ m.exc = None
                  /\ m.status \in {"error", "fastapi_error"}
                        <=> (QueuedRequest(record) /\ record.replay # "responds")
                  /\ m.status = "processed_via_fastapi"
                        <=> (QueuedRequest(record) /\ record.replay = "responds")
C21_Witness ==
    /\ batch.on /\ Len(batch.records) = 2
    /\ QueuedRequest(batch.records[1]) /\ batch.records[1].replay = "client_raises"
    /\ QueuedRequest(batch.records[2]) /\ batch.records[2].replay = "responds"
    /\ batch.out.processed_count = 2
    /\ batch.out.messages[1].status = "error"
    /\ batch.out.messages[2].status = "processed_via_fastapi"

====
